---------------------------- MODULE Spec2Model ----------------------------
(***************************************************************************)
(* Model of src/src/soporte_mongo.py: helpers around a MongoDB server.     *)
(*   crear_bbbd_colecciones / conexion_mongo   -> specification Spec       *)
(*   insertar_datos_en_colecciones             -> specification SpecIns    *)
(*   query_near / query_geonear                -> specification SpecCons   *)
(* The driver (pymongo), pandas and the engine are modelled by what the    *)
(* calls made in the source do.                                            *)
(***************************************************************************)
EXTENDS Integers, Sequences, FiniteSets, TLC

VARIABLES
    servidor,   \* [database name -> set of collection names on the server]
    docs,       \* [category collection -> [_id -> stored document]]
    geo,        \* the geo-indexed collection: [_id -> position]
    ult,        \* record of the last call: arguments, pre-state, outcome
    fase        \* position of the bulk-load script

vars == <<servidor, docs, geo, ult, fase>>

\* ------------------------------------------------------------------ bounds
MaxNombres == 2     \* longest list of collection names passed to provisioning
MaxFilas == 2       \* most rows of the input table
MaxCategorias == 2  \* longest list of categories passed to bulk insertion
MaxPos == 3         \* largest coordinate / radius of the geospatial model

\* ------------------------------------------------------------ common parts
Ninguno == [tipo |-> "None"]
SinLlamada == [op |-> "ninguna"]

RECURSIVE SeqsHasta(_, _)
\* all sequences over S of length at most n
SeqsHasta(S, n) ==
    IF n = 0 THEN {<<>>}
    ELSE LET menores == SeqsHasta(S, n - 1)
         IN  menores \cup {Append(s, e) : s \in {t \in menores : Len(t) = n - 1}, e \in S}

Rango(s) == {s[i] : i \in 1..Len(s)}

\* =========================================================================
\* Provisioning and connection bootstrap
\* =========================================================================
BasesDatos == {"sitios", "otra"}
NombresValidos == {"cafes", "bares"}
\* "" is the name the driver refuses (InvalidName: collection names cannot be empty)
Nombres == NombresValidos \cup {""}
\* what the caller may pass as `conexion`
Conexiones == {"MongoClient", "Collection", "Otro"}

\* isinstance(conexion, (pymongo.MongoClient, pymongo.collection.Collection))
EsConexionValida(conexion) == conexion \in {"MongoClient", "Collection"}

\* conexion[nombre_base_datos]: a client yields a Database; a Collection yields
\* the sub-collection "<name>.<nombre_base_datos>", which is again a Collection
Sitios(conexion, bd) ==
    IF conexion = "MongoClient" THEN [tipo |-> "Database", nombre |-> bd]
    ELSE [tipo |-> "Collection", nombre |-> bd]

\* sitios.create_collection(categoria): on a Database the driver raises
\* CollectionInvalid when the collection exists, InvalidName for a refused name,
\* and creates it otherwise; on a Collection the attribute is a sub-collection
\* and calling it raises TypeError ('Collection' object is not callable)
CreateCollection(sitios, existentes, categoria) ==
    IF sitios.tipo = "Collection" THEN "TypeError"
    ELSE IF categoria \in existentes THEN "CollectionInvalid"
    ELSE IF categoria \notin NombresValidos THEN "InvalidName"
    ELSE "creada"

RECURSIVE BucleCrearSigue(_, _, _, _)
\* the loop with the failure swallowed per name (the loop goes on)
BucleCrearSigue(sitios, nombres, i, acc) ==
    IF i > Len(nombres) THEN acc
    ELSE LET categoria == nombres[i]
             r == CreateCollection(sitios, acc.cols, categoria)
             intentos == Append(acc.intentos, categoria)
         IN  IF r = "creada"
             THEN BucleCrearSigue(sitios, nombres, i + 1,
                      [acc EXCEPT !.cols = @ \cup {categoria}, !.intentos = intentos])
             ELSE IF r = "CollectionInvalid"
             THEN BucleCrearSigue(sitios, nombres, i + 1,
                      [acc EXCEPT !.log = Append(@, <<"ya_existe", categoria>>),
                                  !.intentos = intentos])
             ELSE BucleCrearSigue(sitios, nombres, i + 1,
                      [acc EXCEPT !.intentos = intentos])

RECURSIVE BucleCrear(_, _, _, _)
\* for categoria in nombre_colecciones: try create_collection, except
\* CollectionInvalid: print.  Any other exception leaves the loop.
\* acc = [cols, log, intentos, error]
BucleCrear(sitios, nombres, i, acc) ==
    IF i > Len(nombres) THEN acc
    ELSE LET categoria == nombres[i]
             r == CreateCollection(sitios, acc.cols, categoria)
             intentos == Append(acc.intentos, categoria)
         IN  IF r = "creada"
             THEN BucleCrear(sitios, nombres, i + 1,
                      [acc EXCEPT !.cols = @ \cup {categoria}, !.intentos = intentos])
             ELSE IF r = "CollectionInvalid"
             THEN BucleCrear(sitios, nombres, i + 1,
                      [acc EXCEPT !.log = Append(@, <<"ya_existe", categoria>>),
                                  !.intentos = intentos])
             ELSE [acc EXCEPT !.intentos = intentos, !.error = r]

\* crear_bbbd_colecciones(conexion, nombre_base_datos, nombre_colecciones) on
\* server state srv: the server afterwards, the value returned, the exception
\* that reaches the caller, what was printed, and the create_collection calls made
CrearBbbdColecciones(conexion, bd, nombres, srv) ==
    IF ~EsConexionValida(conexion)
    THEN \* raise TypeError, caught by `except Exception`: printed, None returned
         [servidor |-> srv, ret |-> Ninguno, lanzada |-> "ninguna",
          log |-> << <<"error_crear", "TypeError">> >>, intentos |-> <<>>,
          error |-> "TypeError"]
    ELSE LET sitios == Sitios(conexion, bd)
             b == BucleCrear(sitios, nombres, 1,
                      [cols |-> srv[bd], log |-> <<>>, intentos |-> <<>>,
                       error |-> "ninguno"])
             srv2 == [srv EXCEPT ![bd] = b.cols]
         IN  IF b.error = "ninguno"
             THEN [servidor |-> srv2, ret |-> sitios, lanzada |-> "ninguna",
                   log |-> b.log, intentos |-> b.intentos, error |-> "ninguno"]
             ELSE [servidor |-> srv2, ret |-> Ninguno, lanzada |-> "ninguna",
                   log |-> Append(b.log, <<"error_crear", b.error>>),
                   intentos |-> b.intentos, error |-> b.error]

\* cliente.list_database_names(): a database exists while it holds a collection
ListDatabaseNames(srv) == {bd \in BasesDatos : srv[bd] # {}}

\* conexion_mongo(nombre_base_datos, nombre_coleccion)
ConexionMongo(bd, coleccion, srv) ==
    IF bd \notin ListDatabaseNames(srv) \/ coleccion \notin srv[bd]
    THEN \* raise ValueError, caught by `except Exception`: printed, None returned
         [ret |-> Ninguno, lanzada |-> "ninguna",
          log |-> << <<"error_conectar", "ValueError">> >>]
    ELSE [ret |-> [tipo |-> "par", cliente |-> "MongoClient",
                   con |-> [tipo |-> "Collection", bd |-> bd, nombre |-> coleccion]],
          lanzada |-> "ninguna", log |-> <<>>]

InitProv ==
    /\ servidor = [bd \in BasesDatos |-> {}]
    /\ docs = <<>>
    /\ geo = <<>>
    /\ ult = SinLlamada
    /\ fase = "prov"

LlamarCrear ==
    \E conexion \in Conexiones, bd \in BasesDatos,
       nombres \in SeqsHasta(Nombres, MaxNombres) :
        LET r == CrearBbbdColecciones(conexion, bd, nombres, servidor)
        IN  /\ servidor' = r.servidor
            /\ ult' = [op |-> "crear", conexion |-> conexion, bd |-> bd,
                       nombres |-> nombres, pre |-> servidor, ret |-> r.ret,
                       lanzada |-> r.lanzada, log |-> r.log,
                       intentos |-> r.intentos, error |-> r.error,
                       \* history: the caller repeats the call it has just made
                       repetida |-> /\ ult.op = "crear"
                                    /\ ult.conexion = conexion /\ ult.bd = bd
                                    /\ ult.nombres = nombres]
            /\ UNCHANGED <<docs, geo, fase>>

LlamarConexion ==
    \E bd \in BasesDatos, coleccion \in NombresValidos :
        LET r == ConexionMongo(bd, coleccion, servidor)
        IN  /\ ult' = [op |-> "conexion", bd |-> bd, coleccion |-> coleccion,
                       pre |-> servidor, ret |-> r.ret, lanzada |-> r.lanzada,
                       log |-> r.log]
            /\ UNCHANGED <<servidor, docs, geo, fase>>

NextProv == LlamarCrear \/ LlamarConexion

Spec == InitProv /\ [][NextProv]_vars

\* ------------------------------------------------- claims on provisioning
\* first position of nombres whose create_collection fails with an error other
\* than "already exists" (0 when there is none)
PrimerFallo(conexion, nombres) ==
    LET malos == {i \in 1..Len(nombres) :
                     conexion = "Collection" \/ nombres[i] \notin NombresValidos}
    IN  IF malos = {} THEN 0 ELSE CHOOSE i \in malos : \A j \in malos : i <= j

\* C2: calling crear_bbbd_colecciones twice in a row with the same connection,
\* database name and (legal) names gives no error on either call, leaves the
\* set of collections as the first call left it, and every named collection exists.
C2_Idempotente ==
    [][(/\ ult.op = "crear" /\ ult'.op = "crear" /\ ult'.repetida
        /\ EsConexionValida(ult.conexion)
        /\ Rango(ult.nombres) \subseteq NombresValidos)
       => (/\ ult.error = "ninguno" /\ ult'.error = "ninguno"
           /\ ult.lanzada = "ninguna" /\ ult'.lanzada = "ninguna"
           /\ servidor' = servidor
           /\ Rango(ult.nombres) \subseteq servidor'[ult.bd])]_vars

\* C3: conexion_mongo fails with ValueError towards its caller whenever the
\* database or the collection does not exist, and returns the pair only when
\* both exist.
C3_NotFound ==
    ult.op = "conexion" =>
        IF ult.bd \notin ListDatabaseNames(ult.pre) \/ ult.coleccion \notin ult.pre[ult.bd]
        THEN ult.lanzada = "ValueError" /\ ult.ret = Ninguno
        ELSE ult.lanzada = "ninguna" /\ ult.ret.tipo = "par"

\* C9: with a connection that is neither a client nor a collection handle,
\* crear_bbbd_colecciones raises TypeError to its caller and creates nothing.
C9_TypeError ==
    (ult.op = "crear" /\ ~EsConexionValida(ult.conexion)) =>
        (ult.lanzada = "TypeError" /\ servidor = ult.pre)

\* C10: crear_bbbd_colecciones returns the handle only if every name was created
\* or already existed; when the creation at position i fails with another error,
\* no later name is attempted, what was created before i remains, and the call
\* returns None without raising.
C10_AbortaEnPrimerFallo ==
    ult.op = "crear" =>
        LET i == PrimerFallo(ult.conexion, ult.nombres)
        IN  /\ ult.lanzada = "ninguna"
            /\ ult.ret # Ninguno => Rango(ult.nombres) \subseteq servidor[ult.bd]
            /\ (EsConexionValida(ult.conexion) /\ i > 0) =>
                  /\ ult.ret = Ninguno
                  /\ ult.intentos = SubSeq(ult.nombres, 1, i)
                  /\ servidor[ult.bd] =
                        ult.pre[ult.bd] \cup {ult.nombres[j] : j \in 1..(i - 1)}
                  /\ \A bd \in BasesDatos \ {ult.bd} : servidor[bd] = ult.pre[bd]

\* a call that created a collection, then failed on a later name
C10_Witness ==
    /\ ult.op = "crear" /\ ult.conexion = "MongoClient"
    /\ PrimerFallo(ult.conexion, ult.nombres) >= 2
    /\ ult.nombres[1] \notin ult.pre[ult.bd]
    /\ ult.nombres[1] \in servidor[ult.bd]
    /\ ult.ret = Ninguno

\* =========================================================================
\* Bulk insertion
\* =========================================================================
Categorias == {"cafes", "bares"}
Ids == {"a", "b"}
Lugares == {"p", "q"}
\* row labels of the input table (a pandas index need not be unique)
Indices == {0, 1}

\* a row of the input table: its index label and its columns
Filas == [index : Indices, fsq_id : Ids, category : Categorias, name : Lugares]

Documento(id, categoria, lugar) ==
    [k \in {"_id", "category", "name"} |->
        IF k = "_id" THEN id ELSE IF k = "category" THEN categoria ELSE lugar]

\* df[df["category"] == categoria]: the rows of that category, labels kept
Filtrar(df, categoria) ==
    LET EsDeCategoria(fila) == fila.category = categoria
    IN  SelectSeq(df, EsDeCategoria)

RECURSIVE PonerClave(_, _, _)
\* d[clave] = valor on an insertion-ordered dict held as a sequence of entries:
\* an existing key keeps its place and takes the new value
PonerClave(d, clave, valor) ==
    IF d = <<>> THEN << [clave |-> clave, valor |-> valor] >>
    ELSE IF Head(d).clave = clave
         THEN <<[clave |-> clave, valor |-> valor]>> \o Tail(d)
         ELSE <<Head(d)>> \o PonerClave(Tail(d), clave, valor)

RECURSIVE TToDict(_)
\* df.T.to_dict(): one entry per index label, holding that row's columns
TToDict(df) ==
    IF df = <<>> THEN <<>>
    ELSE LET n == Len(df)
             fila == df[n]
         IN  PonerClave(TToDict(SubSeq(df, 1, n - 1)), fila.index,
                        [fsq_id |-> fila.fsq_id, category |-> fila.category,
                         name |-> fila.name])

\* .values(), then [{"_id": d.pop("fsq_id"), **d} for d in lista_diccionarios]
ListaDiccionarios(df) ==
    LET d == TToDict(df)
    IN  [i \in 1..Len(d) |->
            Documento(d[i].valor.fsq_id, d[i].valor.category, d[i].valor.name)]

\* base_datos[categoria].insert_one(documento) on collection col
InsertOne(col, documento) ==
    IF documento["_id"] \in DOMAIN col
    THEN [col |-> col, error |-> "DuplicateKeyError"]
    ELSE [col |-> (documento["_id"] :> documento) @@ col, error |-> "ninguno"]

RECURSIVE BucleDocumentos(_, _, _, _)
\* for documento in lista_diccionarios: try insert_one, except
\* DuplicateKeyError: print.  acc = [col, log]
BucleDocumentos(categoria, lista, i, acc) ==
    IF i > Len(lista) THEN acc
    ELSE LET r == InsertOne(acc.col, lista[i])
         IN  BucleDocumentos(categoria, lista, i + 1,
                 [col |-> r.col,
                  log |-> IF r.error = "DuplicateKeyError"
                          THEN Append(acc.log, <<"id_ya_existe", categoria, lista[i]["_id"]>>)
                          ELSE acc.log])

RECURSIVE InsertarDatosEnColecciones(_, _, _, _)
\* insertar_datos_en_colecciones(df, base_datos, nombre_categorias), from the
\* i-th category on.  acc = [docs, log]
InsertarDatosEnColecciones(df, categorias, i, acc) ==
    IF i > Len(categorias) THEN acc
    ELSE LET categoria == categorias[i]
             lista == ListaDiccionarios(Filtrar(df, categoria))
             b == BucleDocumentos(categoria, lista, 1,
                      [col |-> acc.docs[categoria], log |-> acc.log])
         IN  InsertarDatosEnColecciones(df, categorias, i + 1,
                 [docs |-> [acc.docs EXCEPT ![categoria] = b.col], log |-> b.log])

\* what a category collection may hold before the call
ColeccionesPrevias(categoria) ==
    {[id \in S |-> Documento(id, categoria, "p")] : S \in SUBSET Ids}

InitIns ==
    /\ servidor = <<>>
    /\ docs \in {f \in [Categorias -> UNION {ColeccionesPrevias(c) : c \in Categorias}] :
                    \A c \in Categorias : f[c] \in ColeccionesPrevias(c)}
    /\ geo = <<>>
    /\ ult = SinLlamada
    /\ fase = "inicio"

\* the loading script calls the bulk insertion
LlamarInsertar ==
    /\ fase = "inicio"
    /\ \E df \in SeqsHasta(Filas, MaxFilas),
          categorias \in SeqsHasta(Categorias, MaxCategorias) :
        LET r == InsertarDatosEnColecciones(df, categorias, 1,
                     [docs |-> docs, log |-> <<>>])
        IN  /\ docs' = r.docs
            /\ ult' = [op |-> "insertar", df |-> df, categorias |-> categorias,
                       pre |-> docs, log |-> r.log]
    /\ fase' = "insertado"
    /\ UNCHANGED <<servidor, geo>>

\* the loading script is run again on the same table
LlamarReinsertar ==
    /\ fase = "insertado"
    /\ LET r == InsertarDatosEnColecciones(ult.df, ult.categorias, 1,
                    [docs |-> docs, log |-> <<>>])
       IN  /\ docs' = r.docs
           /\ ult' = [ult EXCEPT !.pre = docs, !.log = r.log]
    /\ fase' = "reinsertado"
    /\ UNCHANGED <<servidor, geo>>

NextIns == LlamarInsertar \/ LlamarReinsertar

SpecIns == InitIns /\ [][NextIns]_vars

\* --------------------------------------------------- claims on insertion
\* positions of the rows of df in category c
FilasDe(df, c) == {i \in 1..Len(df) : df[i].category = c}

DocDeFila(fila) == Documento(fila.fsq_id, fila.category, fila.name)

\* C1: a row whose key is already in its category collection (from before the
\* call or from an earlier row of the batch) is skipped with a logged message and
\* the stored document is unchanged; every other row of the batch is inserted.
C1_IdempotenteBajoConflicto ==
    ult.op = "insertar" =>
        \A c \in Rango(ult.categorias) : \A i \in FilasDe(ult.df, c) :
            LET clave == ult.df[i].fsq_id
                antes == {j \in FilasDe(ult.df, c) : j < i /\ ult.df[j].fsq_id = clave}
            IN  IF clave \in DOMAIN ult.pre[c]
                THEN /\ <<"id_ya_existe", c, clave>> \in Rango(ult.log)
                     /\ clave \in DOMAIN docs[c] /\ docs[c][clave] = ult.pre[c][clave]
                ELSE IF antes # {}
                THEN /\ <<"id_ya_existe", c, clave>> \in Rango(ult.log)
                     /\ clave \in DOMAIN docs[c]
                     /\ docs[c][clave] =
                            DocDeFila(ult.df[CHOOSE j \in antes : \A k \in antes : j <= k])
                ELSE clave \in DOMAIN docs[c] /\ docs[c][clave] = DocDeFila(ult.df[i])

\* C8: from empty collections and a table with pairwise distinct fsq_id, every
\* listed category collection holds exactly one document per row of that
\* category, under _id = fsq_id and without an fsq_id field, and nothing else.
C8_ParticionPorCategoria ==
    (/\ ult.op = "insertar" /\ fase = "insertado"
     /\ \A c \in Categorias : ult.pre[c] = <<>>
     /\ \A i, j \in 1..Len(ult.df) : ult.df[i].fsq_id = ult.df[j].fsq_id => i = j)
    => \A c \in Rango(ult.categorias) :
          /\ DOMAIN docs[c] = {ult.df[i].fsq_id : i \in FilasDe(ult.df, c)}
          /\ \A i \in FilasDe(ult.df, c) :
                /\ docs[c][ult.df[i].fsq_id] = DocDeFila(ult.df[i])
                /\ "fsq_id" \notin DOMAIN docs[c][ult.df[i].fsq_id]

\* =========================================================================
\* Proximity queries
\* =========================================================================
GeoIds == {"d1", "d2", "d3"}
Posiciones == 0..MaxPos
\* the radius the caller passes, negative values included
Radios == -1..MaxPos
\* reference points: well formed, without 'type', without 'coordinates'
PuntosValidos == {[type |-> "Point", coordinates |-> c] : c \in Posiciones}
Puntos == PuntosValidos \cup {[coordinates |-> 0], [type |-> "Point"]}
\* col_geometria_coleccion: "geometry" gives the operator $geometry
ClavesGeometria == {"geometry", "box"}
CampoDistancia == "distancia"

Abs(n) == IF n < 0 THEN -n ELSE n

\* the engine's distance between a reference point and a stored position
Distancia(punto, pos) == Abs(punto.coordinates - pos)

EsPuntoGeoJSON(punto) == {"type", "coordinates"} \subseteq DOMAIN punto

DocGeo(id, pos) == [k \in {"_id", "geometry"} |-> IF k = "_id" THEN id ELSE pos]

\* the orders in which the engine may return the documents ids: nearest first,
\* documents at the same distance in any order
OrdenesPorDistancia(col, punto, ids) ==
    LET n == Cardinality(ids)
    IN  {s \in [1..n -> ids] :
            /\ \A i, j \in 1..n : s[i] = s[j] => i = j
            /\ \A i \in 1..n : \A j \in 1..n :
                  i < j => Distancia(punto, col[s[i]]) <= Distancia(punto, col[s[j]])}

\* the filter document built for coleccion.find
FiltroNearAmplio(punto, radio, clave) ==
    [operador |-> clave, punto |-> punto, maxDistance |-> radio + 1]

FiltroNear(punto, radio, clave) ==
    [operador |-> clave, punto |-> punto, maxDistance |-> radio]

\* the single-stage pipeline built for coleccion.aggregate
PipelineGeonearAbs(punto, campo, radio) ==
    [near |-> punto, distanceField |-> campo, maxDistance |-> Abs(radio),
     spherical |-> TRUE]

PipelineGeonear(punto, campo, radio) ==
    [near |-> punto, distanceField |-> campo, maxDistance |-> radio,
     spherical |-> TRUE]

\* coleccion.find({'geometry': {'$near': {...}}}): the engine refuses an operator
\* other than $geometry, a point that is no GeoJSON point and a negative
\* $maxDistance (OperationFailure); otherwise the documents within
\* $maxDistance of the point, nearest first
Find(col, filtro) ==
    IF \/ filtro.operador # "geometry"
       \/ ~EsPuntoGeoJSON(filtro.punto)
       \/ filtro.maxDistance < 0
    THEN [error |-> "OperationFailure", cursores |-> {}]
    ELSE LET ids == {id \in DOMAIN col :
                        Distancia(filtro.punto, col[id]) <= filtro.maxDistance}
         IN  [error |-> "ninguno",
              cursores |-> {[i \in 1..Cardinality(ids) |-> DocGeo(s[i], col[s[i]])] :
                               s \in OrdenesPorDistancia(col, filtro.punto, ids)}]

\* coleccion.aggregate([{"$geoNear": {...}}]): each document within maxDistance,
\* with its distance under distanceField, by increasing distance
Aggregate(col, etapa) ==
    IF ~EsPuntoGeoJSON(etapa.near) \/ etapa.maxDistance < 0
    THEN [error |-> "OperationFailure", cursores |-> {}]
    ELSE LET ids == {id \in DOMAIN col :
                        Distancia(etapa.near, col[id]) <= etapa.maxDistance}
             ConDistancia(id) ==
                 [k \in {"_id", "geometry", etapa.distanceField} |->
                     IF k = etapa.distanceField THEN Distancia(etapa.near, col[id])
                     ELSE DocGeo(id, col[id])[k]]
         IN  [error |-> "ninguno",
              cursores |-> {[i \in 1..Cardinality(ids) |-> ConDistancia(s[i])] :
                               s \in OrdenesPorDistancia(col, etapa.near, ids)}]

\* a table with the rows last to first
DataFrameInvertido(cursor) ==
    LET n == Len(cursor)
        columnas == UNION {DOMAIN cursor[i] : i \in 1..n}
    IN  [tipo |-> "DataFrame", columnas |-> columnas,
         filas |-> [i \in 1..n |->
                      [k \in columnas |-> IF k \in DOMAIN cursor[n + 1 - i]
                                          THEN cursor[n + 1 - i][k] ELSE "NaN"]]]

\* pd.DataFrame(cursor): one row per document in the cursor's order, the columns
\* the union of the documents' fields, a missing field NaN
DataFrame(cursor) ==
    LET columnas == UNION {DOMAIN cursor[i] : i \in 1..Len(cursor)}
    IN  [tipo |-> "DataFrame", columnas |-> columnas,
         filas |-> [i \in 1..Len(cursor) |->
                      [k \in columnas |-> IF k \in DOMAIN cursor[i]
                                          THEN cursor[i][k] ELSE "NaN"]]]

\* a query that catches the driver's error, prints it and returns an empty table
QueryNearTraga(punto, radio, col, clave) ==
    LET r == Find(col, FiltroNear(punto, radio, clave))
    IN  IF r.error # "ninguno"
        THEN {[lanzada |-> "ninguna", cursor |-> <<>>, tabla |-> DataFrame(<<>>)]}
        ELSE {[lanzada |-> "ninguna", cursor |-> c, tabla |-> DataFrame(c)] :
                 c \in r.cursores}

\* query_near(punto_referencia, radio, coleccion, col_geometria_coleccion): the
\* outcomes the call may have (the exception reaching the caller, or the table)
QueryNear(punto, radio, col, clave) ==
    LET r == Find(col, FiltroNear(punto, radio, clave))
    IN  IF r.error # "ninguno"
        THEN {[lanzada |-> r.error, cursor |-> <<>>, tabla |-> Ninguno]}
        ELSE {[lanzada |-> "ninguna", cursor |-> c, tabla |-> DataFrame(c)] :
                 c \in r.cursores}

\* query_geonear(punto_referencia, nombre_nuevo_campo, radio, coleccion)
QueryGeonear(punto, campo, radio, col) ==
    LET r == Aggregate(col, PipelineGeonear(punto, campo, radio))
    IN  IF r.error # "ninguno"
        THEN {[lanzada |-> r.error, cursor |-> <<>>, tabla |-> Ninguno]}
        ELSE {[lanzada |-> "ninguna", cursor |-> c, tabla |-> DataFrame(c)] :
                 c \in r.cursores}

InitCons ==
    /\ servidor = <<>>
    /\ docs = <<>>
    /\ geo \in UNION {[S -> Posiciones] : S \in SUBSET GeoIds}
    /\ ult = SinLlamada
    /\ fase = "consultas"

LlamarQueryNear ==
    \E punto \in Puntos, radio \in Radios, clave \in ClavesGeometria :
        \E r \in QueryNear(punto, radio, geo, clave) :
            /\ ult' = [op |-> "query_near", punto |-> punto, radio |-> radio,
                       clave |-> clave, campo |-> "", lanzada |-> r.lanzada,
                       cursor |-> r.cursor, tabla |-> r.tabla]
            /\ UNCHANGED <<servidor, docs, geo, fase>>

LlamarQueryGeonear ==
    \E punto \in Puntos, radio \in Radios :
        \E r \in QueryGeonear(punto, CampoDistancia, radio, geo) :
            /\ ult' = [op |-> "query_geonear", punto |-> punto, radio |-> radio,
                       clave |-> "", campo |-> CampoDistancia,
                       lanzada |-> r.lanzada, cursor |-> r.cursor, tabla |-> r.tabla]
            /\ UNCHANGED <<servidor, docs, geo, fase>>

NextCons == LlamarQueryNear \/ LlamarQueryGeonear

SpecCons == InitCons /\ [][NextCons]_vars

\* ----------------------------------------------------- claims on queries
\* the error taxonomy: an error of the call's own validation of its input is an
\* InputError, a rejection by the engine a QueryError
ClaseError(e) ==
    IF e \in {"TypeError", "ValueError"} THEN "InputError"
    ELSE IF e = "OperationFailure" THEN "QueryError"
    ELSE "ninguna"

C6_ExclusionPorRadio ==
    (/\ ult.op \in {"query_near", "query_geonear"}
     /\ ult.radio >= 0 /\ ult.lanzada = "ninguna")
    => /\ ult.tabla # Ninguno
       /\ \A i \in 1..Len(ult.tabla.filas) :
             LET id == ult.tabla.filas[i]["_id"]
             IN  id \in DOMAIN geo /\ Distancia(ult.punto, geo[id]) <= ult.radio

\* a non-empty result that leaves out a document beyond the radius
C6_Witness ==
    /\ ult.op = "query_near" /\ ult.lanzada = "ninguna"
    /\ Len(ult.tabla.filas) >= 1
    /\ \E id \in DOMAIN geo : Distancia(ult.punto, geo[id]) > ult.radio

\* C7: the rows of a non-empty result of query_geonear are in non-decreasing
\* order of the computed distance field, in the order the engine returned them.
C7_OrdenPorDistancia ==
    (ult.op = "query_geonear" /\ ult.lanzada = "ninguna" /\ Len(ult.tabla.filas) > 0)
    => LET filas == ult.tabla.filas
       IN  /\ Len(filas) = Len(ult.cursor)
           /\ \A i \in 1..Len(filas) : filas[i]["_id"] = ult.cursor[i]["_id"]
           /\ \A i \in 1..(Len(filas) - 1) :
                 filas[i][ult.campo] <= filas[i + 1][ult.campo]

\* documents at distances 1, 2 and 3 with radius 2: exactly the rows [1, 2]
C7_Witness ==
    /\ ult.op = "query_geonear" /\ ult.lanzada = "ninguna"
    /\ Cardinality(DOMAIN geo) = 3
    /\ {Distancia(ult.punto, geo[id]) : id \in DOMAIN geo} = {1, 2, 3}
    /\ ult.radio = 2
    /\ Len(ult.tabla.filas) = 2
    /\ ult.tabla.filas[1][ult.campo] = 1 /\ ult.tabla.filas[2][ult.campo] = 2

=============================================================================
